---- MODULE Spec2Model ----
(***************************************************************************)
(* Model of the evaluator result parser:                                   *)
(*   - ObjectExtractor (analiys_jsonl_res.py): convert_to_list, safe_get,  *)
(*     get_success, parse_ego, extract_objects;                            *)
(*   - DatasetManager (test_canvas.py): map_to_category, calculate_metrics,*)
(*     distance_based_fp_tp_fn, distance_based_categoly_analysis.          *)
(*                                                                         *)
(* JSON / Python values are tagged records: the tag t is the Python type.  *)
(* Python strings are sequences of one-character strings, so that          *)
(* str.replace, str.split, str.lower and float() can be modelled by what   *)
(* they do.  Floats are decimal fixed point numbers m * 10^-e, normalised. *)
(***************************************************************************)
EXTENDS Integers, Sequences, FiniteSets, TLC

VARIABLES
    data,               \* extract_objects: the records consumed so far
    extracted_objects,  \* extract_objects: the local list of rows
    pc,                 \* extract_objects: "idle" | "loop" | "done" | "raised"
    value,              \* convert_to_list: the argument
    converted,          \* convert_to_list: the returned value
    cpc,                \* convert_to_list: "idle" | "call" | "returned"
    df,                 \* DatasetManager: self.data, a sequence of rows
    result,             \* DatasetManager: the value returned by the last call
    call,               \* DatasetManager: the last call and its bin_size
    prev                \* DatasetManager: the call before the last

vars == <<data, extracted_objects, pc, value, converted, cpc, df, result, call, prev>>

(***************************************************************************)
(* Bounds                                                                  *)
(***************************************************************************)
MaxRecords == 2
MaxObjects == 2
MaxStrLen == 5
MaxRows == 2
MaxCarRows == 8
MaxDistRows == 2

(***************************************************************************)
(* Python values                                                           *)
(***************************************************************************)
Null == [t |-> "null"]
Bool(b) == [t |-> "bool", v |-> b]
Num(n) == [t |-> "num", v |-> n]
Str(s) == [t |-> "str", v |-> s]
List(l) == [t |-> "list", v |-> l]
Map(f) == [t |-> "map", v |-> f]
EmptyMap == Map([k \in {} |-> Null])
EmptyList == List(<<>>)

RECURSIVE FloatNorm(_, _)
\* a float m * 10^-e, in its normal form (no trailing zero in the fraction)
FloatNorm(m, e) ==
    IF m = 0 THEN [t |-> "float", m |-> 0, e |-> 0]
    ELSE IF e > 0 /\ m % 10 = 0 THEN FloatNorm(m \div 10, e - 1)
    ELSE [t |-> "float", m |-> m, e |-> e]

\* Python truthiness, as used by `not frame`, `not header_stamp`, `obj and ...`
Truthy(x) ==
    CASE x.t = "null" -> FALSE
      [] x.t = "bool" -> x.v
      [] x.t = "num" -> x.v # 0
      [] x.t = "float" -> x.m # 0
      [] x.t = "str" -> Len(x.v) > 0
      [] x.t = "list" -> Len(x.v) > 0
      [] x.t = "map" -> DOMAIN x.v # {}

\* only a dict has .get; on anything else the attribute lookup raises
HasGet(x) == x.t = "map"

\* dict.get(key, default)
PyGet(d, key, default) == IF key \in DOMAIN d.v THEN d.v[key] ELSE default

(***************************************************************************)
(* Strings                                                                 *)
(***************************************************************************)
RECURSIVE replace(_, _)
\* str.replace(c, ""): every occurrence of the character c is removed
replace(s, c) ==
    IF s = <<>> THEN <<>>
    ELSE IF Head(s) = c THEN replace(Tail(s), c)
    ELSE <<Head(s)>> \o replace(Tail(s), c)

RECURSIVE split(_, _)
\* str.split(c): the list of the maximal c-free pieces, empty pieces kept
split(s, c) ==
    IF \A k \in 1..Len(s) : s[k] # c THEN <<s>>
    ELSE LET p == CHOOSE k \in 1..Len(s) : s[k] = c /\ \A q \in 1..(k - 1) : s[q] # c
         IN <<SubSeq(s, 1, p - 1)>> \o split(SubSeq(s, p + 1, Len(s)), c)

lowerChar(c) ==
    CASE c = "T" -> "t" [] c = "R" -> "r" [] c = "U" -> "u" [] c = "E" -> "e"
      [] c = "F" -> "f" [] c = "A" -> "a" [] c = "L" -> "l" [] c = "S" -> "s"
      [] c = "Y" -> "y" [] OTHER -> c

\* str.lower()
lower(s) == [k \in 1..Len(s) |-> lowerChar(s[k])]

RECURSIVE strip(_)
\* str.strip() as float() applies it: leading and trailing blanks removed
strip(s) ==
    IF s = <<>> THEN s
    ELSE IF Head(s) = " " THEN strip(Tail(s))
    ELSE IF s[Len(s)] = " " THEN strip(SubSeq(s, 1, Len(s) - 1))
    ELSE s

Digits == {"0", "1"}
DigitVal(c) == IF c = "1" THEN 1 ELSE 0

\* whether float(tok) succeeds (over the alphabet of the model): blanks around,
\* digits with at most one ".", at least one digit
FloatOK(tok) ==
    LET s == strip(tok) IN
        /\ \A k \in 1..Len(s) : s[k] \in Digits \cup {"."}
        /\ Cardinality({k \in 1..Len(s) : s[k] = "."}) <= 1
        /\ \E k \in 1..Len(s) : s[k] \in Digits

RECURSIVE DecVal(_)
DecVal(ds) == IF ds = <<>> THEN 0 ELSE 10 * DecVal(SubSeq(ds, 1, Len(ds) - 1)) + DigitVal(ds[Len(ds)])

\* float(tok), for a token float() accepts
float(tok) ==
    LET s == strip(tok)
        dots == {k \in 1..Len(s) : s[k] = "."}
        nfrac == IF dots = {} THEN 0 ELSE Len(s) - (CHOOSE k \in dots : TRUE)
    IN FloatNorm(DecVal(replace(s, ".")), nfrac)

(***************************************************************************)
(* ObjectExtractor                                                         *)
(***************************************************************************)
\* the outcome of a call: a returned value, or an exception that propagates
Raise == [ok |-> FALSE]
Return(x) == [ok |-> TRUE, val |-> x]

\* the list convert_to_list returns for a string whose tokens do not all parse,
\* if the parsed prefix were kept
PartialFloats(tokens) ==
    LET bad == CHOOSE k \in 1..Len(tokens) : ~FloatOK(tokens[k]) /\ \A q \in 1..(k - 1) : FloatOK(tokens[q])
    IN List([k \in 1..(bad - 1) |-> float(tokens[k])])

convert_to_list_partial(x) ==
    IF x.t = "str" THEN
        LET tokens == split(replace(replace(x.v, "["), "]"), ",") IN
            IF \A k \in 1..Len(tokens) : FloatOK(tokens[k])
            THEN List([k \in 1..Len(tokens) |-> float(tokens[k])])
            ELSE PartialFloats(tokens)
    ELSE IF x.t = "list" THEN x ELSE EmptyList

\* convert_to_list: a str has every "[" and "]" removed, is split on "," and
\* parsed token by token; a ValueError of any float() gives []
convert_to_list(x) ==
    IF x.t = "str" THEN
        LET tokens == split(replace(replace(x.v, "["), "]"), ",") IN
            IF \A k \in 1..Len(tokens) : FloatOK(tokens[k])
            THEN List([k \in 1..Len(tokens) |-> float(tokens[k])])
            ELSE EmptyList
    ELSE IF x.t = "list" THEN x ELSE EmptyList

\* safe_get(obj, key, default)
safe_get(obj, key, default) ==
    IF Truthy(obj) /\ obj.t = "map" THEN PyGet(obj, key, default) ELSE default

StrTrue == <<"t", "r", "u", "e">>

get_success_nolower(obj) ==
    IF obj.t = "null" THEN Return(Bool(FALSE))
    ELSE IF obj.t = "bool" THEN Return(obj)
    ELSE IF obj.t = "str" THEN Return(Bool(obj.v = StrTrue))
    ELSE Raise

\* get_success(obj): None -> False, bool -> itself, otherwise obj.lower() == 'true'
\* (a value without .lower raises AttributeError)
get_success(obj) ==
    IF obj.t = "null" THEN Return(Bool(FALSE))
    ELSE IF obj.t = "bool" THEN Return(obj)
    ELSE IF obj.t = "str" THEN Return(Bool(lower(obj.v) = StrTrue))
    ELSE Raise

StrEgo == <<"E", "g", "o">>
StrUnknown == <<"U", "n", "k", "n", "o", "w", "n">>
EmptyRow == [k \in {} |-> Null]

IsNumber(x) == x.t \in {"num", "bool"}
NumVal(x) == IF x.t = "bool" THEN (IF x.v THEN 1 ELSE 0) ELSE x.v
Nano == 1000000000

\* parse_ego(frame): {} when header.stamp is falsy, else the ego row
parse_ego(frame) ==
    LET ego == PyGet(frame, "Ego", EmptyMap) IN
    IF ~HasGet(ego) THEN Raise ELSE
    LET transform == PyGet(ego, "TransformStamped", EmptyMap) IN
    IF ~HasGet(transform) THEN Raise ELSE
    LET transform_data == PyGet(transform, "transform", EmptyMap)
        header == PyGet(transform, "header", EmptyMap) IN
    IF ~HasGet(header) THEN Raise ELSE
    LET header_stamp == PyGet(header, "stamp", EmptyMap) IN
    IF ~Truthy(header_stamp) THEN Return(EmptyRow) ELSE
    IF ~HasGet(header_stamp) THEN Raise ELSE
    LET sec == PyGet(header_stamp, "sec", Null)
        nanosec == PyGet(header_stamp, "nanosec", Num(0)) IN
    IF ~IsNumber(sec) \/ ~IsNumber(nanosec) THEN Raise ELSE
    IF ~HasGet(transform_data) THEN Raise ELSE
    LET translation == PyGet(transform_data, "translation", EmptyMap) IN
    IF ~HasGet(translation) THEN Raise ELSE
    LET rotation == PyGet(transform_data, "rotation", EmptyMap) IN
    IF ~HasGet(rotation) THEN Raise ELSE
    Return( "timestamp" :> FloatNorm(NumVal(sec) * Nano + NumVal(nanosec), 9)
         @@ "object_type" :> Str(StrEgo)
         @@ "position_x" :> PyGet(translation, "x", Null)
         @@ "position_y" :> PyGet(translation, "y", Null)
         @@ "position_z" :> PyGet(translation, "z", Null)
         @@ "orientation_x" :> PyGet(rotation, "x", Null)
         @@ "orientation_y" :> PyGet(rotation, "y", Null)
         @@ "orientation_z" :> PyGet(rotation, "z", Null)
         @@ "orientation_w" :> PyGet(rotation, "w", Null) )

\* the dict extract_objects builds for one element of Objects
ObjectRow(obj, stamp, success) ==
    IF ~HasGet(obj) THEN Raise ELSE
    LET frame_success == get_success(success) IN
    IF ~frame_success.ok THEN Raise ELSE
    Return( "timestamp" :> stamp
         @@ "status" :> PyGet(obj, "status", Str(StrUnknown))
         @@ "object_type" :> PyGet(obj, "object_type", Str(StrUnknown))
         @@ "label" :> PyGet(obj, "label", Str(<<>>))
         @@ "distance_from_ego" :> PyGet(obj, "distance_from_ego", Null)
         @@ "position_x" :> safe_get(PyGet(obj, "position", Null), "x", Null)
         @@ "position_y" :> safe_get(PyGet(obj, "position", Null), "y", Null)
         @@ "position_z" :> safe_get(PyGet(obj, "position", Null), "z", Null)
         @@ "velocity_x" :> safe_get(PyGet(obj, "velocity", Null), "x", Null)
         @@ "velocity_y" :> safe_get(PyGet(obj, "velocity", Null), "y", Null)
         @@ "velocity_z" :> safe_get(PyGet(obj, "velocity", Null), "z", Null)
         @@ "orientation_x" :> safe_get(PyGet(obj, "orientation", Null), "x", Null)
         @@ "orientation_y" :> safe_get(PyGet(obj, "orientation", Null), "y", Null)
         @@ "orientation_z" :> safe_get(PyGet(obj, "orientation", Null), "z", Null)
         @@ "orientation_w" :> safe_get(PyGet(obj, "orientation", Null), "w", Null)
         @@ "pose_error_x" :> safe_get(PyGet(obj, "pose_error", Null), "x", Null)
         @@ "pose_error_y" :> safe_get(PyGet(obj, "pose_error", Null), "y", Null)
         @@ "pose_error_z" :> safe_get(PyGet(obj, "pose_error", Null), "z", Null)
         @@ "heading_error_z" :> safe_get(PyGet(obj, "heading_error", Null), "z", Null)
         @@ "velocity_error_x" :> safe_get(PyGet(obj, "velocity_error", Null), "x", Null)
         @@ "velocity_error_y" :> safe_get(PyGet(obj, "velocity_error", Null), "y", Null)
         @@ "bev_error" :> PyGet(obj, "bev_error", Null)
         @@ "pose_covariance" :> convert_to_list(PyGet(obj, "pose_covariance", EmptyList))
         @@ "twist_covariance" :> convert_to_list(PyGet(obj, "twist_covariance", EmptyList))
         @@ "frame_success" :> frame_success.val )

\* `for obj in objects`: what the iteration yields; a dict yields its keys and a
\* str its characters (each a str), anything else but a list is not iterable
Iterable(x) == x.t \in {"list", "map", "str"}
Items(x) ==
    CASE x.t = "list" -> x.v
      [] x.t = "str" -> [k \in 1..Len(x.v) |-> Str(<<x.v[k]>>)]
      [] x.t = "map" -> [k \in 1..Cardinality(DOMAIN x.v) |-> Str(<<>>)]

\* the rows of the object loop: one per element, in list order
ObjectRows(objects, stamp, success) ==
    LET items == Items(objects)
        rows == [k \in 1..Len(items) |-> ObjectRow(items[k], stamp, success)]
    IN IF \A k \in 1..Len(items) : rows[k].ok
       THEN Return([k \in 1..Len(items) |-> rows[k].val])
       ELSE Raise

\* the rows of one iteration, were the ego entry appended after the object rows
RecordRowsEgoLast(ego, objs) == objs \o <<ego>>

\* the rows one iteration appends: the ego entry, then the object rows
RecordRows(ego, objs) == <<ego>> \o objs

\* one iteration of `for record in data`: the rows it appends to
\* extracted_objects, or the exception it raises
LoopBody(record) ==
    LET frame == PyGet(record, "Frame", EmptyMap) IN
    IF ~Truthy(frame) THEN Return(<<>>) ELSE
    LET res == PyGet(record, "Result", EmptyMap)
        stampc == PyGet(record, "Stamp", EmptyMap) IN
    IF ~HasGet(stampc) THEN Raise ELSE
    LET stamp == PyGet(stampc, "ROS", Null) IN
    IF ~HasGet(res) THEN Raise ELSE
    LET success == PyGet(res, "Success", Null) IN
    IF ~HasGet(frame) THEN Raise ELSE
    LET criteria0 == PyGet(frame, "criteria0", EmptyMap) IN
    IF ~HasGet(criteria0) THEN Raise ELSE
    LET objects == PyGet(criteria0, "Objects", EmptyList)
        ego == parse_ego(frame) IN
    IF ~ego.ok THEN Raise ELSE
    IF ~Iterable(objects) THEN Raise ELSE
    LET objs == ObjectRows(objects, stamp, success) IN
    IF ~objs.ok THEN Raise ELSE
    Return(RecordRows(ego.val, objs.val))

(***************************************************************************)
(* Input records of extract_objects                                        *)
(***************************************************************************)
\* a key that is not there
Absent == [t |-> "absent"]
Opt(key, x) == IF x.t = "absent" THEN {} ELSE {<<key, x>>}
\* the dict with the given (key, value) pairs
MapOf(pairs) == Map([k \in {p[1] : p \in pairs} |-> (CHOOSE p \in pairs : p[1] = k)[2]])

StrTP == <<"T", "P">>
StrFP == <<"F", "P">>
StrFN == <<"F", "N">>
StrEST == <<"E", "S", "T">>
StrCar == <<"c", "a", "r">>
StrPedestrian == <<"p", "e", "d", "e", "s", "t", "r", "i", "a", "n">>
StrDog == <<"d", "o", "g">>

XYZ == Map("x" :> Num(1) @@ "y" :> Num(2) @@ "z" :> Num(3))
XYZW == Map("x" :> Num(1) @@ "y" :> Num(2) @@ "z" :> Num(3) @@ "w" :> Num(4))

\* an object with every field, its covariances a list and a string
ObjFull ==
    Map( "status" :> Str(StrTP) @@ "object_type" :> Str(StrEST) @@ "label" :> Str(StrCar)
      @@ "distance_from_ego" :> Num(23) @@ "position" :> XYZ @@ "velocity" :> XYZ
      @@ "orientation" :> XYZW @@ "pose_error" :> XYZ @@ "heading_error" :> XYZ
      @@ "velocity_error" :> XYZ @@ "bev_error" :> Num(1)
      @@ "pose_covariance" :> List(<<Num(1), Num(2)>>)
      @@ "twist_covariance" :> Str(<<"[", "1", ",", "0", "]">>) )
\* an object whose sub-objects are null, of a non-mapping type, empty or partial
ObjOdd ==
    Map( "status" :> Str(StrFP) @@ "label" :> Str(StrDog)
      @@ "position" :> Null @@ "velocity" :> Num(5) @@ "orientation" :> Str(<<"x">>)
      @@ "pose_error" :> List(<<Num(1)>>) @@ "heading_error" :> EmptyMap
      @@ "velocity_error" :> Map("x" :> Num(4))
      @@ "pose_covariance" :> Str(<<"1", ",", "x">>) @@ "twist_covariance" :> Null )
ObjBare == EmptyMap

RECURSIVE SeqsUpTo(_, _)
\* the sequences over S of length at most n
SeqsUpTo(S, n) ==
    IF n = 0 THEN {<<>>}
    ELSE LET shorter == SeqsUpTo(S, n - 1)
         IN shorter \cup {Append(q, x) : q \in {r \in shorter : Len(r) = n - 1}, x \in S}

ObjLists == SeqsUpTo({ObjFull, ObjOdd}, MaxObjects) \cup {<<ObjBare>>, <<Null>>}

StampFull == Map("sec" :> Num(1) @@ "nanosec" :> Num(5))
StampSecOnly == Map("sec" :> Num(1))
StampNoSec == Map("nanosec" :> Num(5))
TransformFull == Map("translation" :> XYZ @@ "rotation" :> XYZW)

HeaderChoices ==
    {Absent, Null, Map("frame_id" :> Str(<<"m">>))}
    \cup {Map("stamp" :> st) : st \in {EmptyMap, Null, StampFull, StampSecOnly, StampNoSec}}
TransformChoices ==
    {Absent, Null, EmptyMap, Map("translation" :> Null @@ "rotation" :> XYZW),
     Map("translation" :> Map("x" :> Num(1)))}
TransformStamped(header, transform) == MapOf(Opt("header", header) \cup Opt("transform", transform))
EgoChoices ==
    {Absent, Null, EmptyMap, Num(5)}
    \cup {Map("TransformStamped" :> TransformStamped(h, TransformFull)) : h \in HeaderChoices}
    \cup {Map("TransformStamped" :> TransformStamped(Map("stamp" :> StampFull), tr)) : tr \in TransformChoices}

CriteriaChoices ==
    {Absent, Null, EmptyMap, Map("Objects" :> Null)}
    \cup {Map("Objects" :> List(l)) : l \in ObjLists}

SuccessChoices ==
    {Absent, Null, Bool(TRUE), Bool(FALSE), Num(1),
     Str(<<"t", "r", "u", "e">>), Str(<<"T", "R", "U", "E">>), Str(<<"T", "r", "u", "e">>),
     Str(<<"f", "a", "l", "s", "e">>), Str(<<"y", "e", "s">>), Str(<<>>)}
ResultChoices == {Absent, Null} \cup {MapOf(Opt("Success", su)) : su \in SuccessChoices}
StampChoices == {Absent, Null, EmptyMap, Map("ROS" :> Num(7))}

EgoBase == Map("TransformStamped" :> TransformStamped(Map("stamp" :> StampFull), TransformFull))
CriteriaBase == Map("Objects" :> List(<<ObjFull, ObjOdd>>))
ResultBase == Map("Success" :> Bool(TRUE))
StampBase == Map("ROS" :> Num(7))
FrameOf(ego, criteria0) == MapOf(Opt("Ego", ego) \cup Opt("criteria0", criteria0))
RecordOf(frame, res, stamp) == MapOf(Opt("Frame", frame) \cup Opt("Result", res) \cup Opt("Stamp", stamp))

\* the records a line of a .jsonl file may hold: a well formed record, varied
\* in one place at a time
Records ==
    {RecordOf(f, ResultBase, StampBase) : f \in {Absent, Null, EmptyMap, Num(5)}}
    \cup {RecordOf(FrameOf(e, CriteriaBase), ResultBase, StampBase) : e \in EgoChoices}
    \cup {RecordOf(FrameOf(EgoBase, c), ResultBase, StampBase) : c \in CriteriaChoices}
    \cup {RecordOf(FrameOf(EgoBase, CriteriaBase), r, StampBase) : r \in ResultChoices}
    \cup {RecordOf(FrameOf(EgoBase, CriteriaBase), ResultBase, st) : st \in StampChoices}

(***************************************************************************)
(* extract_objects                                                         *)
(***************************************************************************)
\* LoopBody, tabulated over the input records
LoopBodyOf == [record \in Records |-> LoopBody(record)]

ConvertIdle == value = Null /\ converted = Null /\ cpc = "idle"
DatasetIdle == df = <<>> /\ result = Null /\ call = Null /\ prev = Null

InitExtract ==
    /\ data = <<>>
    /\ extracted_objects = <<>>
    /\ pc = "loop"
    /\ ConvertIdle
    /\ DatasetIdle

\* one iteration of the loop over the records: the record is skipped, its rows
\* are appended, or the exception leaves extract_objects
Iterate ==
    /\ pc = "loop"
    /\ Len(data) < MaxRecords
    /\ \E record \in Records :
        LET body == LoopBodyOf[record] IN
            /\ data' = Append(data, record)
            /\ IF body.ok
               THEN extracted_objects' = extracted_objects \o body.val /\ pc' = "loop"
               ELSE extracted_objects' = extracted_objects /\ pc' = "raised"
    /\ UNCHANGED <<value, converted, cpc, df, result, call, prev>>

\* the input is exhausted: return extracted_objects
ReturnRows ==
    /\ pc = "loop"
    /\ pc' = "done"
    /\ UNCHANGED <<data, extracted_objects, value, converted, cpc, df, result, call, prev>>

NextExtract == Iterate \/ ReturnRows

SpecExtract == InitExtract /\ [][NextExtract]_vars

(***************************************************************************)
(* Properties of extract_objects                                           *)
(***************************************************************************)
RECURSIVE Path(_, _)
\* the value under a chain of keys, Absent when a link is missing or no dict
Path(x, keys) ==
    IF keys = <<>> THEN x
    ELSE IF x.t = "map" /\ Head(keys) \in DOMAIN x.v THEN Path(x.v[Head(keys)], Tail(keys))
    ELSE Absent

Present(x) == x.t # "absent"
\* the record has a Frame that is not empty
HasFrame(record) ==
    LET f == Path(record, <<"Frame">>) IN Present(f) /\ Truthy(f)
\* the elements of Frame.criteria0.Objects
ObjectsOf(record) ==
    LET o == Path(record, <<"Frame", "criteria0", "Objects">>) IN
        IF o.t = "list" THEN o.v ELSE <<>>
StampOf(record) == Path(record, <<"Frame", "Ego", "TransformStamped", "header", "stamp">>)
\* header.stamp is absent or empty
NoStamp(record) == StampOf(record) \in {Absent, EmptyMap}
\* header.stamp is a non-empty mapping without the key sec
SecMissing(record) ==
    LET st == StampOf(record) IN st.t = "map" /\ DOMAIN st.v # {} /\ "sec" \notin DOMAIN st.v

FieldNames ==
    {"timestamp", "object_type", "status", "label", "distance_from_ego",
     "position_x", "position_y", "position_z", "velocity_x", "velocity_y", "velocity_z",
     "orientation_x", "orientation_y", "orientation_z", "orientation_w",
     "pose_error_x", "pose_error_y", "pose_error_z", "heading_error_z",
     "velocity_error_x", "velocity_error_y", "bev_error",
     "pose_covariance", "twist_covariance", "frame_success"}

\* the entries a record is to contribute: none without a Frame, else an ego
\* entry and a row per object
EntryCount(record) == IF HasFrame(record) THEN 1 + Len(ObjectsOf(record)) ELSE 0
RECURSIVE Offset(_, _)
\* the number of entries of the records before the k-th
Offset(d, k) == IF k <= 1 THEN 0 ELSE Offset(d, k - 1) + EntryCount(d[k - 1])

IsEgoEntry(row) == "status" \notin DOMAIN row
\* the row carries the fields of this element of Objects
IsRowOf(row, obj) ==
    /\ "status" \in DOMAIN row
    /\ \A f \in {"status", "object_type", "label", "distance_from_ego", "bev_error"} :
           Present(Path(obj, <<f>>)) => row[f] = Path(obj, <<f>>)

\* C1: every entry extract_objects returns has exactly the one field set of
\* the 25 row fields, ego entries and object rows alike.
C1_UniformFieldSet ==
    pc = "done" => \A k \in 1..Len(extracted_objects) : DOMAIN extracted_objects[k] = FieldNames

\* the entries a record adds if a record without a stamp adds no ego entry
NoStampCount(record) ==
    IF HasFrame(record) /\ NoStamp(record) THEN Len(ObjectsOf(record)) ELSE EntryCount(record)
RECURSIVE NoStampTotal(_, _)
NoStampTotal(d, k) == IF k = 0 THEN 0 ELSE NoStampTotal(d, k - 1) + NoStampCount(d[k])

\* C2: a record with a non-empty Frame whose header.stamp is absent or empty
\* adds exactly one entry per element of Objects, and no ego entry.
C2_NoStampNoEgoEntry ==
    pc = "done" => Len(extracted_objects) = NoStampTotal(data, Len(data))

ContainerPaths ==
    {<<"Frame", "Ego">>, <<"Frame", "Ego", "TransformStamped">>,
     <<"Frame", "Ego", "TransformStamped", "header">>,
     <<"Frame", "Ego", "TransformStamped", "transform">>,
     <<"Frame", "Ego", "TransformStamped", "transform", "translation">>,
     <<"Frame", "Ego", "TransformStamped", "transform", "rotation">>,
     <<"Result">>, <<"Stamp">>, <<"Frame", "criteria0">>}
ObjectContainers ==
    [position |-> {"position_x", "position_y", "position_z"},
     velocity |-> {"velocity_x", "velocity_y", "velocity_z"},
     orientation |-> {"orientation_x", "orientation_y", "orientation_z", "orientation_w"},
     pose_error |-> {"pose_error_x", "pose_error_y", "pose_error_z"},
     heading_error |-> {"heading_error_z"},
     velocity_error |-> {"velocity_error_x", "velocity_error_y"}]
\* a container of the record is missing, null or no mapping
HasBadContainer(record) ==
    /\ HasFrame(record)
    /\ Path(record, <<"Frame">>).t = "map"
    /\ \/ \E p \in ContainerPaths : Path(record, p).t # "map"
       \/ \E m \in 1..Len(ObjectsOf(record)) : \E c \in DOMAIN ObjectContainers :
              Path(ObjectsOf(record)[m], <<c>>).t # "map"

\* C3: a record with a missing, null or non-mapping container never makes
\* extract_objects raise, and every field read under such a container of an
\* object is null in the row of that object.
C3_BadShapeYieldsNull ==
    /\ pc = "raised" => ~HasBadContainer(data[Len(data)])
    /\ pc = "done" =>
        \A k \in 1..Len(data) : \A m \in 1..Len(ObjectsOf(data[k])) :
            \A c \in DOMAIN ObjectContainers :
                (HasFrame(data[k]) /\ Path(ObjectsOf(data[k])[m], <<c>>).t # "map") =>
                    \A f \in ObjectContainers[c] :
                        LET row == extracted_objects[Offset(data, k) + 1 + m] IN
                            f \in DOMAIN row /\ row[f] = Null

\* C4: a non-empty header.stamp without sec is not fatal: extract_objects
\* still returns, with the object rows of that record and of the others.
C4_MissingSecNotFatal ==
    /\ pc = "raised" => ~SecMissing(data[Len(data)])
    /\ pc = "done" =>
        \A k \in 1..Len(data) : SecMissing(data[k]) =>
            \A m \in 1..Len(ObjectsOf(data[k])) :
                \E q \in 1..Len(extracted_objects) :
                    IsRowOf(extracted_objects[q], ObjectsOf(data[k])[m])

\* C5: what extract_objects holds is the concatenation, in record order, of
\* each record's entries: nothing for a record without a (non-empty) Frame,
\* else the ego entry followed by the object rows in the order of Objects.
C5_ConcatenationInOrder ==
    pc # "raised" =>
        /\ Len(extracted_objects) = Offset(data, Len(data) + 1)
        /\ \A k \in 1..Len(data) : HasFrame(data[k]) =>
            /\ IsEgoEntry(extracted_objects[Offset(data, k) + 1])
            /\ \A m \in 1..Len(ObjectsOf(data[k])) :
                   IsRowOf(extracted_objects[Offset(data, k) + 1 + m], ObjectsOf(data[k])[m])

\* two records, the first skipped for its empty Frame, the second with an ego
\* row and two different objects, returned in that order
C5_Witness ==
    /\ pc = "done"
    /\ Len(data) = 2
    /\ ~HasFrame(data[1])
    /\ ObjectsOf(data[2]) = <<ObjFull, ObjOdd>>
    /\ Len(extracted_objects) = 3
    /\ extracted_objects[1]["object_type"] = Str(StrEgo)
    /\ extracted_objects[2]["status"] = Str(StrTP)
    /\ extracted_objects[3]["status"] = Str(StrFP)

\* the boolean of a success value: false when absent or null, a boolean
\* itself, a string true iff it is "true" up to the case of its letters
SuccessOf(x) ==
    CASE x.t \in {"absent", "null"} -> FALSE
      [] x.t = "bool" -> x.v
      [] x.t = "str" ->
            /\ Len(x.v) = 4
            /\ x.v[1] \in {"t", "T"} /\ x.v[2] \in {"r", "R"}
            /\ x.v[3] \in {"u", "U"} /\ x.v[4] \in {"e", "E"}
      [] OTHER -> FALSE

\* C9: every object row of a record carries frame_success =
\* SuccessOf(record.Result.Success), the same for all rows of the record.
C9_FrameSuccessOfRecord ==
    pc # "raised" =>
        \A k \in 1..Len(data) : HasFrame(data[k]) =>
            \A m \in 1..Len(ObjectsOf(data[k])) :
                extracted_objects[Offset(data, k) + 1 + m]["frame_success"]
                    = Bool(SuccessOf(Path(data[k], <<"Result", "Success">>)))

\* a record with Success "TRUE" and one with Success "false", two object rows each
C9_Witness ==
    /\ pc = "done"
    /\ Len(data) = 2
    /\ Path(data[1], <<"Result", "Success">>) = Str(<<"T", "R", "U", "E">>)
    /\ Path(data[2], <<"Result", "Success">>) = Str(<<"f", "a", "l", "s", "e">>)
    /\ Len(extracted_objects) = 6
    /\ extracted_objects[2]["frame_success"] = Bool(TRUE)
    /\ extracted_objects[3]["frame_success"] = Bool(TRUE)
    /\ extracted_objects[5]["frame_success"] = Bool(FALSE)
    /\ extracted_objects[6]["frame_success"] = Bool(FALSE)

(***************************************************************************)
(* convert_to_list on its own                                              *)
(***************************************************************************)
Alphabet == {"[", "]", ",", "0", "1", ".", " ", "x"}
ConvertInputs ==
    {Str(q) : q \in SeqsUpTo(Alphabet, MaxStrLen)}
    \cup {Null, Num(3), Bool(TRUE), EmptyMap, XYZ, EmptyList,
          List(<<Num(1), Num(2)>>), List(<<Str(<<"x">>)>>)}
ExtractIdle == data = <<>> /\ extracted_objects = <<>> /\ pc = "idle"

InitConvert ==
    /\ value \in ConvertInputs
    /\ converted = Null
    /\ cpc = "call"
    /\ ExtractIdle
    /\ DatasetIdle

\* the call convert_to_list(value)
Convert ==
    /\ cpc = "call"
    /\ converted' = convert_to_list(value)
    /\ cpc' = "returned"
    /\ UNCHANGED <<value, data, extracted_objects, pc, df, result, call, prev>>

NextConvert == Convert

SpecConvert == InitConvert /\ [][NextConvert]_vars

\* the string without its one pair of enclosing brackets, if it has one
StripEnclosingPair(s) ==
    IF Len(s) >= 2 /\ s[1] = "[" /\ s[Len(s)] = "]" THEN SubSeq(s, 2, Len(s) - 1) ELSE s
\* the string without a leading "[" and without a trailing "]"
StripEnclosing(s) ==
    LET a == IF Len(s) >= 1 /\ s[1] = "[" THEN 2 ELSE 1
        b == IF Len(s) >= 1 /\ s[Len(s)] = "]" THEN Len(s) - 1 ELSE Len(s)
    IN SubSeq(s, a, b)
\* the positions of the commas of s, and its k-th comma separated token
CommaPositions(s) == {k \in 1..Len(s) : s[k] = ","}
TokenCount(s) == Cardinality(CommaPositions(s)) + 1
TokenStart(s, k) ==
    IF k = 1 THEN 1
    ELSE 1 + CHOOSE p \in CommaPositions(s) : Cardinality({q \in CommaPositions(s) : q < p}) = k - 2
TokenEnd(s, k) ==
    IF k = TokenCount(s) THEN Len(s)
    ELSE (CHOOSE p \in CommaPositions(s) : Cardinality({q \in CommaPositions(s) : q < p}) = k - 1) - 1
Token(s, k) == SubSeq(s, TokenStart(s, k), TokenEnd(s, k))
\* all tokens of s as floats if every one parses, else nothing
AllOrNothing(s) ==
    IF \A k \in 1..TokenCount(s) : FloatOK(Token(s, k))
    THEN List([k \in 1..TokenCount(s) |-> float(Token(s, k))])
    ELSE EmptyList
NotBracket(c) == c \notin {"[", "]"}

\* C8 as stated: a list is returned unchanged; a string has ONE pair of
\* enclosing brackets stripped if present (both of the pair, or each end on
\* its own), is split on commas and gives all its tokens as floats or, if one
\* does not parse, the empty list; any other value gives the empty list.
C8_SinglePairStripped ==
    cpc = "returned" =>
        CASE value.t = "list" -> converted = value
          [] value.t = "str" -> converted \in {AllOrNothing(StripEnclosingPair(value.v)),
                                               AllOrNothing(StripEnclosing(value.v))}
          [] OTHER -> converted = EmptyList

\* C8 amended: as C8, but EVERY "[" and "]" of the string is removed, wherever
\* it stands, before the string is split on commas.
C8_AllBracketsRemoved ==
    cpc = "returned" =>
        converted = CASE value.t = "list" -> value
                      [] value.t = "str" -> AllOrNothing(SelectSeq(value.v, NotBracket))
                      [] OTHER -> EmptyList

\* a string with a bracket inside its enclosing pair, converted: "[1],0" with
\* its three brackets removed gives [1.0, 0.0]
C8_Witness ==
    /\ cpc = "returned"
    /\ value = Str(<<"[", "1", "]", ",", "0">>)
    /\ converted = List(<<FloatNorm(1, 0), FloatNorm(0, 0)>>)

(***************************************************************************)
(* DatasetManager                                                          *)
(***************************************************************************)
StrVehicleCar == <<"v", "e", "h", "i", "c", "l", "e", ".", "c", "a", "r">>
StrUnclassified == <<"u", "n", "c", "l", "a", "s", "s", "i", "f", "i", "e", "d">>

\* the category mapping handed to the constructor: category -> labels, in
\* the order of the dict
category_mapping ==
    << <<StrCar, <<StrCar, StrVehicleCar>> >>,
       <<StrPedestrian, <<StrPedestrian>> >> >>

RECURSIVE ReverseMapping(_, _)
\* the reverse_mapping dict after the first n categories: a later category
\* overwrites the entry of a label an earlier one listed
ReverseMapping(mapping, n) ==
    IF n = 0 THEN [l \in {} |-> <<>>]
    ELSE LET before == ReverseMapping(mapping, n - 1)
             labels == {mapping[n][2][q] : q \in 1..Len(mapping[n][2])}
         IN [l \in DOMAIN before \cup labels |-> IF l \in labels THEN mapping[n][1] ELSE before[l]]

\* map_to_category(label): a label (or NaN) the mapping does not list is
\* 'unclassified'
map_to_category(label) ==
    LET reverse_mapping == ReverseMapping(category_mapping, Len(category_mapping)) IN
        IF label.t = "str" /\ label.v \in DOMAIN reverse_mapping
        THEN Str(reverse_mapping[label.v])
        ELSE Str(StrUnclassified)

\* __init__: the rows read from the CSV file, with their general_category;
\* there is no distance_bin column yet
Load(rows) ==
    [k \in 1..Len(rows) |->
        [label |-> rows[k].label, status |-> rows[k].status,
         distance_from_ego |-> rows[k].distance_from_ego,
         general_category |-> map_to_category(rows[k].label),
         distance_bin |-> Absent]]

\* rationals n/d in lowest terms, d > 0: the floats of the metrics
RECURSIVE GCD(_, _)
GCD(a, b) == IF b = 0 THEN a ELSE GCD(b, a % b)
Rat(n, d) == IF n = 0 THEN [n |-> 0, d |-> 1] ELSE [n |-> n \div GCD(n, d), d |-> d \div GCD(n, d)]
RatAddInt(a, k) == Rat(a.n + k * a.d, a.d)
RatDiv(a, b) == Rat(a.n * b.d, a.d * b.n)

RowsWhere(d, col, x) == {k \in 1..Len(d) : d[k][col] = x}

\* tp counted without the halving
calculate_category_metrics_unhalved(d, category) ==
    LET category_data == RowsWhere(d, "general_category", category)
        tp == Rat(Cardinality(category_data \cap RowsWhere(d, "status", Str(StrTP))), 1)
        fp == Cardinality(category_data \cap RowsWhere(d, "status", Str(StrFP)))
        fn == Cardinality(category_data \cap RowsWhere(d, "status", Str(StrFN)))
    IN [TPrate |-> IF RatAddInt(tp, fn).n > 0 THEN RatDiv(tp, RatAddInt(tp, fn)) ELSE Rat(0, 1),
        mAP |-> IF RatAddInt(tp, fp).n > 0 THEN RatDiv(tp, RatAddInt(tp, fp)) ELSE Rat(0, 1)]

\* calculate_category_metrics(category)
calculate_category_metrics(d, category) ==
    LET category_data == RowsWhere(d, "general_category", category)
        tp == Rat(Cardinality(category_data \cap RowsWhere(d, "status", Str(StrTP))), 2)
        fp == Cardinality(category_data \cap RowsWhere(d, "status", Str(StrFP)))
        fn == Cardinality(category_data \cap RowsWhere(d, "status", Str(StrFN)))
    IN [TPrate |-> IF RatAddInt(tp, fn).n > 0 THEN RatDiv(tp, RatAddInt(tp, fn)) ELSE Rat(0, 1),
        mAP |-> IF RatAddInt(tp, fp).n > 0 THEN RatDiv(tp, RatAddInt(tp, fp)) ELSE Rat(0, 1)]

RECURSIVE Unique(_, _, _)
\* Series.unique(): the values of a column, in the order of first appearance
Unique(d, col, n) ==
    IF n = 0 THEN <<>>
    ELSE LET before == Unique(d, col, n - 1)
         IN IF \E q \in 1..Len(before) : before[q] = d[n][col] THEN before
            ELSE Append(before, d[n][col])

\* calculate_metrics(): the dict filled by the loop over the categories
MetricsOf(d) ==
    LET categories == Unique(d, "general_category", Len(d))
        kept == {categories[q] : q \in 1..Len(categories)} \ {Str(StrUnclassified)}
    IN [c \in kept |-> calculate_category_metrics(d, c)]

\* a row's distance_bin, were the floor quotient not multiplied back
DistanceBinQuotient(distance, bin_size) ==
    IF distance.t = "null" THEN Null ELSE Num(distance.v \div bin_size)

\* (distance_from_ego // bin_size) * bin_size; NaN stays NaN
DistanceBin(distance, bin_size) ==
    IF distance.t = "null" THEN Null ELSE Num((distance.v \div bin_size) * bin_size)

\* the column assignment, were an existing distance_bin column kept
AssignDistanceBinOnce(d, bin_size) ==
    [k \in 1..Len(d) |->
        IF d[k].distance_bin = Absent
        THEN [d[k] EXCEPT !.distance_bin = DistanceBin(d[k].distance_from_ego, bin_size)]
        ELSE d[k]]

\* self.data['distance_bin'] = ...: the column is (over)written for every row
AssignDistanceBin(d, bin_size) ==
    [k \in 1..Len(d) |-> [d[k] EXCEPT !.distance_bin = DistanceBin(d[k].distance_from_ego, bin_size)]]

\* groupby(['distance_bin', col]).size().unstack(fill_value=0): the rows with
\* a NaN key are dropped; the table has a line per bin and a column per value
\* of col that is left, and 0 where the pair has no row
GroupSizes(d, col) ==
    LET kept == {k \in 1..Len(d) : d[k].distance_bin # Null /\ d[k][col] # Null}
        index == {d[k].distance_bin : k \in kept}
        columns == {d[k][col] : k \in kept}
    IN [index |-> index, columns |-> columns,
        cell |-> [p \in index \X columns |->
                    Cardinality({k \in kept : d[k].distance_bin = p[1] /\ d[k][col] = p[2]})]]

(***************************************************************************)
(* The datasets a CSV file may hold.  Distances are in tenths of a metre,  *)
(* and so are the bin sizes: 234 is 23.4 m, a bin_size of 100 is 10 m.     *)
(***************************************************************************)
CsvRow(label, status, distance) == [label |-> label, status |-> status, distance_from_ego |-> distance]
\* rows of a mapped and of an unmapped label, with and without status and
\* distance; the row of an ego entry (nothing but NaN); rows of the other
\* labels of the mapping
GeneralRows ==
    {CsvRow(Str(l), st, di) : l \in {StrCar, StrDog}, st \in {Str(StrTP), Null}, di \in {Null, Num(234)}}
    \cup {CsvRow(Null, Null, Null),
          CsvRow(Str(StrVehicleCar), Str(StrFN), Num(234)),
          CsvRow(Str(StrPedestrian), Str(StrFP), Num(99)),
          CsvRow(Str(StrPedestrian), Str(StrTP), Num(234))}
\* rows of the one category car: a TP rows, then b FP rows, then c FN rows
CarRow(st) == CsvRow(Str(StrCar), Str(st), Num(234))
CarCounts ==
    {n \in (0..MaxCarRows) \X (0..MaxCarRows) \X (0..MaxCarRows) : n[1] + n[2] + n[3] <= MaxCarRows}
CarDatasets ==
    {[k \in 1..(n[1] + n[2] + n[3]) |->
        IF k <= n[1] THEN CarRow(StrTP)
        ELSE IF k <= n[1] + n[2] THEN CarRow(StrFP) ELSE CarRow(StrFN)] : n \in CarCounts}
\* rows at distances around the bin borders
DistRows == {CsvRow(Str(StrCar), Str(StrTP), di) :
                di \in {Null, Num(-5), Num(0), Num(99), Num(100), Num(234), Num(250)}}
Datasets ==
    SeqsUpTo(GeneralRows, MaxRows) \cup CarDatasets \cup SeqsUpTo(DistRows, MaxDistRows)
BinSizes == {100, 250}

InitDataset ==
    /\ df \in {Load(rows) : rows \in Datasets}
    /\ result = Null
    /\ call = Null
    /\ prev = Null
    /\ ExtractIdle
    /\ ConvertIdle

calculate_metrics ==
    /\ result' = MetricsOf(df)
    /\ call' = [op |-> "calculate_metrics"]
    /\ prev' = call
    /\ UNCHANGED <<df, data, extracted_objects, pc, value, converted, cpc>>

distance_based_fp_tp_fn ==
    /\ \E bin_size \in BinSizes :
        /\ df' = AssignDistanceBin(df, bin_size)
        /\ result' = GroupSizes(df', "status")
        /\ call' = [op |-> "distance_based_fp_tp_fn", bin_size |-> bin_size]
    /\ prev' = call
    /\ UNCHANGED <<data, extracted_objects, pc, value, converted, cpc>>

distance_based_categoly_analysis ==
    /\ \E bin_size \in BinSizes :
        /\ df' = AssignDistanceBin(df, bin_size)
        /\ result' = GroupSizes(df', "general_category")
        /\ call' = [op |-> "distance_based_categoly_analysis", bin_size |-> bin_size]
    /\ prev' = call
    /\ UNCHANGED <<data, extracted_objects, pc, value, converted, cpc>>

NextDataset == calculate_metrics \/ distance_based_fp_tp_fn \/ distance_based_categoly_analysis

SpecDataset == InitDataset /\ [][NextDataset]_vars

(***************************************************************************)
(* Properties of DatasetManager                                            *)
(***************************************************************************)
Called(op) == call # Null /\ call.op = op
\* the number of rows of a category with a status
StatusCount(c, st) ==
    Cardinality({k \in 1..Len(df) : df[k].general_category = c /\ df[k].status = Str(st)})
\* r is num / den, or 0 when den is not positive
IsRatio(r, num, den) ==
    /\ r.d > 0
    /\ IF den > 0 THEN r.n * den = r.d * num ELSE r.n = 0

\* C6: calculate_metrics returns an entry for exactly the categories other
\* than 'unclassified' that have a row, and for such a category, with
\* TP = nTP/2: TPrate = TP/(TP+nFN) and mAP = TP/(TP+nFP), each 0 when its
\* denominator is 0.  (TP/(TP+nFN) = nTP/(nTP+2*nFN).)
C6_MetricsPerCategory ==
    Called("calculate_metrics") =>
        /\ DOMAIN result = {df[k].general_category : k \in 1..Len(df)} \ {Str(StrUnclassified)}
        /\ \A c \in DOMAIN result :
            LET nTP == StatusCount(c, StrTP)
                nFP == StatusCount(c, StrFP)
                nFN == StatusCount(c, StrFN)
            IN /\ IsRatio(result[c].TPrate, nTP, nTP + 2 * nFN)
               /\ IsRatio(result[c].mAP, nTP, nTP + 2 * nFP)

\* the example of the claim: 4 TP rows, 1 FP, 1 FN of car give 2/3 and 2/3
C6_Witness ==
    /\ Called("calculate_metrics")
    /\ StatusCount(Str(StrCar), StrTP) = 4
    /\ StatusCount(Str(StrCar), StrFP) = 1
    /\ StatusCount(Str(StrCar), StrFN) = 1
    /\ result[Str(StrCar)] = [TPrate |-> [n |-> 2, d |-> 3], mAP |-> [n |-> 2, d |-> 3]]

DistanceCalled == Called("distance_based_fp_tp_fn") \/ Called("distance_based_categoly_analysis")
\* the column the last distance call grouped by, besides the bin
KeyColumn == IF call.op = "distance_based_fp_tp_fn" THEN "status" ELSE "general_category"
\* floor(d / b) * b for b > 0
BinFloor(d, b) == d - (d % b)
\* the rows with a distance whose bin and key are those of the cell p
RowsOfCell(p) ==
    {k \in 1..Len(df) : /\ df[k].distance_from_ego # Null
                        /\ Num(BinFloor(df[k].distance_from_ego.v, call.bin_size)) = p[1]
                        /\ df[k][KeyColumn] = p[2]}
CellOf(k) == <<Num(BinFloor(df[k].distance_from_ego.v, call.bin_size)), df[k][KeyColumn]>>

\* C7 as stated: in both distance aggregations every row with a non-null
\* distance d is counted once, in the cell of floor(d / bin_size) * bin_size
\* and its own status / category; rows without distance are in no cell and
\* no bin key is null.
C7_EveryDistanceRowCounted ==
    DistanceCalled =>
        /\ \A k \in 1..Len(df) : df[k].distance_from_ego # Null =>
               CellOf(k) \in DOMAIN result.cell
        /\ \A p \in DOMAIN result.cell : result.cell[p] = Cardinality(RowsOfCell(p))
        /\ Null \notin result.index

\* C7 amended: every row with a non-null distance d AND a non-null grouping
\* key (status, or category) is counted once, in the cell of
\* floor(d / bin_size) * bin_size and its key; a row whose distance or status
\* is null is in no cell, and no bin or column key is null.
C7_KeyedDistanceRowCounted ==
    DistanceCalled =>
        /\ \A k \in 1..Len(df) : (df[k].distance_from_ego # Null /\ df[k][KeyColumn] # Null) =>
               CellOf(k) \in DOMAIN result.cell
        /\ \A p \in DOMAIN result.cell : result.cell[p] = Cardinality(RowsOfCell(p))
        /\ Null \notin result.index
        /\ Null \notin result.columns
        /\ DOMAIN result.cell = result.index \X result.columns

\* the status view with bins of 10 m of a TP row at 23.4 m and a row at
\* 23.4 m whose status is null: one cell, bin 20 m and TP, counting 1
C7_Witness ==
    /\ Called("distance_based_fp_tp_fn")
    /\ call.bin_size = 100
    /\ Len(df) = 2
    /\ df[1].status = Str(StrTP) /\ df[1].distance_from_ego = Num(234)
    /\ df[2].status = Null /\ df[2].distance_from_ego = Num(234)
    /\ DOMAIN result.cell = {<<Num(200), Str(StrTP)>>}
    /\ result.cell[<<Num(200), Str(StrTP)>>] = 1

\* the columns loaded at construction
Loaded(d) ==
    [k \in 1..Len(d) |->
        [label |-> d[k].label, status |-> d[k].status,
         distance_from_ego |-> d[k].distance_from_ego,
         general_category |-> d[k].general_category]]
\* the manager as constructed from the same rows: no distance_bin column
Fresh(d) == [k \in 1..Len(d) |-> [d[k] EXCEPT !.distance_bin = Absent]]
\* what a call returns on a manager
ResultOn(c, d) ==
    CASE c.op = "calculate_metrics" -> MetricsOf(d)
      [] c.op = "distance_based_fp_tp_fn" -> GroupSizes(AssignDistanceBin(d, c.bin_size), "status")
      [] c.op = "distance_based_categoly_analysis" ->
            GroupSizes(AssignDistanceBin(d, c.bin_size), "general_category")

\* C10: a call leaves label, status, distance_from_ego and general_category
\* as loaded, and returns what the same call returns on a manager freshly
\* constructed from the same rows, whatever calls came before.
C10_ResultOfLoadedRows ==
    [][/\ Loaded(df') = Loaded(df)
       /\ result' = ResultOn(call', Fresh(df))]_vars

\* a category view with bins of 25 m right after a status view with bins of
\* 10 m: the bin of the row at 23.4 m is 0 again, not the 20 m of the call before
C10_Witness ==
    /\ prev # Null /\ prev.op = "distance_based_fp_tp_fn" /\ prev.bin_size = 100
    /\ Called("distance_based_categoly_analysis") /\ call.bin_size = 250
    /\ Len(df) > 0
    /\ df[1].distance_from_ego = Num(234)
    /\ df[1].distance_bin = Num(0)
    /\ result.index = {Num(0)}

====
